---- MODULE Spec2Model ----
(***************************************************************************)
(* Estimates module: calculation of sections/lines (_recalc_sections,      *)
(* _eval_formula) and the revision store (create_estimate,                 *)
(* update_estimate, update_business_state) of src/service.py, with the     *)
(* request entry points of src/router.py.                                  *)
(*                                                                         *)
(* Money is a Python float in the source.  Every input of this model is    *)
(* chosen so that all computed values are whole numbers (percent values    *)
(* are multiples of 100), where float arithmetic is exact; amounts are     *)
(* therefore integers here.                                                *)
(***************************************************************************)
EXTENDS Integers, Sequences, FiniteSets, TLC

VARIABLES
    db,     \* committed rows of the store: estimates, revisions, sections, items
    seq,    \* database sequences (not transactional): est, rev, sec, item
    resp,   \* the response of the last finished request
    sess,   \* open database sessions of requests in progress (SpecConc)
    secs,   \* SpecCalc: the section list handed to _recalc_sections;
            \* SpecEval: the formula and environment handed to _eval_formula
    res     \* what the function returned for secs, or the exception it raised

vars == <<db, seq, resp, sess, secs, res>>

----------------------------------------------------------------------------
(* Values *)

\* Optional[...] = None, for string-valued and for number-valued fields
NoneStr == "None"
NoneInt == -1

SectionTypes == {"MATERIAL", "LABOR", "EXPENSE", "OVERHEAD", "PROFIT", "MANUAL"}
CalcModes == {"NORMAL", "PERCENT_OF_SUBTOTAL", "FORMULA"}
BusinessStates == {"ONGOING", "DONE", "CANCELED"}

\* dict helpers: a dict is a function whose DOMAIN is its key set
EmptyDict == [k \in {} |-> 0]
DictSet(d, k, v) == [x \in (DOMAIN d) \cup {k} |-> IF x = k THEN v ELSE d[x]]
DictGet(d, k, dflt) == IF k \in DOMAIN d THEN d[k] ELSE dflt

RECURSIVE SumOver(_, _)
SumOver(f, S) ==
    IF S = {} THEN 0
    ELSE LET k == CHOOSE x \in S : TRUE IN f[k] + SumOver(f, S \ {k})

\* sum(d.values())
SumValues(d) == SumOver(d, DOMAIN d)

----------------------------------------------------------------------------
(* _eval_formula: ast.parse, the allow-list walk, compile/eval *)

\* a Constant node holds a number (kind "num") or a string (kind "str")
Num(v) == [type |-> "Constant", kind |-> "num", value |-> v]
StrConst(v) == [type |-> "Constant", kind |-> "str", value |-> v]
Name(id) == [type |-> "Name", id |-> id, ctx |-> [type |-> "Load"]]
BinOp(l, op, r) == [type |-> "BinOp", left |-> l, op |-> [type |-> op], right |-> r]
UnaryOp(op, e) == [type |-> "UnaryOp", op |-> [type |-> op], operand |-> e]
Call(f, a) == [type |-> "Call", func |-> f, args |-> a]
Attribute(v, attr) ==
    [type |-> "Attribute", value |-> v, attr |-> attr, ctx |-> [type |-> "Load"]]
Subscript(v, i) ==
    [type |-> "Subscript", value |-> v, slice |-> i, ctx |-> [type |-> "Load"]]
Compare(l, op, r) ==
    [type |-> "Compare", left |-> l, ops |-> <<[type |-> op]>>, comparators |-> <<r>>]
BoolOp(op, vs) == [type |-> "BoolOp", op |-> [type |-> op], values |-> vs]
Expression(b) == [type |-> "Expression", body |-> b]
SyntaxError == [type |-> "SyntaxError"]

\* ast.parse(expr, mode="eval") on the formula strings of this model
AstParse(expr) ==
    CASE expr = "MATERIAL + LABOR" ->
            Expression(BinOp(Name("MATERIAL"), "Add", Name("LABOR")))
      [] expr = "MATERIAL * 2" ->
            Expression(BinOp(Name("MATERIAL"), "Mult", Num(2)))
      [] expr = "-LABOR + MATERIAL" ->
            Expression(BinOp(UnaryOp("USub", Name("LABOR")), "Add", Name("MATERIAL")))
      [] expr = "MATERIAL / LABOR" ->
            Expression(BinOp(Name("MATERIAL"), "Div", Name("LABOR")))
      [] expr = "MATERIAL ** 2" ->
            Expression(BinOp(Name("MATERIAL"), "Pow", Num(2)))
      [] expr = "'abc'" ->
            Expression(StrConst("abc"))
      [] expr = "abs(MATERIAL)" ->
            Expression(Call(Name("abs"), <<Name("MATERIAL")>>))
      [] expr = "MATERIAL.real" ->
            Expression(Attribute(Name("MATERIAL"), "real"))
      [] expr = "MATERIAL[0]" ->
            Expression(Subscript(Name("MATERIAL"), Num(0)))
      [] expr = "MATERIAL < LABOR" ->
            Expression(Compare(Name("MATERIAL"), "Lt", Name("LABOR")))
      [] expr = "MATERIAL and LABOR" ->
            Expression(BoolOp("And", <<Name("MATERIAL"), Name("LABOR")>>))
      [] expr = "FOO + 1" ->
            Expression(BinOp(Name("FOO"), "Add", Num(1)))
      [] OTHER -> SyntaxError

\* an allow-list that lets attribute access through
AllowedWithAttribute ==
    {"Expression", "BinOp", "Add", "Sub", "Mult", "Div", "Pow",
     "UnaryOp", "UAdd", "USub", "Num", "Constant", "Name", "Load", "Attribute"}

_ALLOWED_FORMULA_NODES ==
    {"Expression", "BinOp", "Add", "Sub", "Mult", "Div", "Pow",
     "UnaryOp", "UAdd", "USub", "Num", "Constant", "Name", "Load"}

\* ast.iter_child_nodes: the child nodes of a node, in field order
ChildNodes(n) ==
    CASE n.type = "Expression" -> <<n.body>>
      [] n.type = "BinOp" -> <<n.left, n.op, n.right>>
      [] n.type = "UnaryOp" -> <<n.op, n.operand>>
      [] n.type = "Name" -> <<n.ctx>>
      [] n.type = "Call" -> <<n.func>> \o n.args
      [] n.type = "Attribute" -> <<n.value, n.ctx>>
      [] n.type = "Subscript" -> <<n.value, n.slice, n.ctx>>
      [] n.type = "Compare" -> <<n.left>> \o n.ops \o n.comparators
      [] n.type = "BoolOp" -> <<n.op>> \o n.values
      [] OTHER -> <<>>

\* ast.walk: breadth-first, from a queue of nodes still to visit
RECURSIVE AstWalk(_)
AstWalk(todo) ==
    IF todo = <<>> THEN <<>>
    ELSE <<Head(todo)>> \o AstWalk(Tail(todo) \o ChildNodes(Head(todo)))

\* the for-loop over ast.walk(tree): the first node that raises, or "ok"
RECURSIVE WalkCheck(_, _)
WalkCheck(nodes, env) ==
    IF nodes = <<>> THEN "ok"
    ELSE LET n == Head(nodes) IN
         IF n.type \notin _ALLOWED_FORMULA_NODES THEN "disallowed"
         ELSE IF n.type = "Name" /\ n.id \notin DOMAIN env THEN "unknown variable"
         ELSE WalkCheck(Tail(nodes), env)

\* The value of a subexpression, or the Python exception its evaluation
\* raised.  Numbers are whole in this model: the environments and formulas
\* it evaluates keep every quotient whole.
EvalNum(v) == [exc |-> "None", kind |-> "num", value |-> v]
EvalStr(v) == [exc |-> "None", kind |-> "str", value |-> v]
EvalErr(e) == [exc |-> e, kind |-> "num", value |-> 0]

RECURSIVE Power(_, _)
Power(b, e) == IF e <= 0 THEN 1 ELSE b * Power(b, e - 1)

\* a binary operator on two numbers (environment values are floats)
BinOpNum(op, l, r) ==
    CASE op = "Add" -> EvalNum(l + r)
      [] op = "Sub" -> EvalNum(l - r)
      [] op = "Mult" -> EvalNum(l * r)
      [] op = "Div" -> IF r = 0 THEN EvalErr("ZeroDivisionError") ELSE EvalNum(l \div r)
      [] op = "Pow" -> EvalNum(Power(l, r))

\* a binary operator on two evaluated operands, the left one evaluated first;
\* a string operand with a float operand is a TypeError
EvalBinOp(op, l, r) ==
    IF l.exc # "None" THEN l
    ELSE IF r.exc # "None" THEN r
    ELSE IF l.kind = "str" \/ r.kind = "str" THEN EvalErr("TypeError")
    ELSE BinOpNum(op, l.value, r.value)

EvalUnaryOp(op, v) ==
    IF v.exc # "None" THEN v
    ELSE IF v.kind = "str" THEN EvalErr("TypeError")
    ELSE EvalNum(IF op = "USub" THEN 0 - v.value ELSE v.value)

\* eval(code, {"__builtins__": {}}, env) of a tree the walk let through
RECURSIVE AstEval(_, _)
AstEval(n, env) ==
    CASE n.type = "Expression" -> AstEval(n.body, env)
      [] n.type = "Constant" ->
            IF n.kind = "str" THEN EvalStr(n.value) ELSE EvalNum(n.value)
      [] n.type = "Name" -> EvalNum(env[n.id])
      [] n.type = "UnaryOp" -> EvalUnaryOp(n.op.type, AstEval(n.operand, env))
      [] n.type = "BinOp" ->
            EvalBinOp(n.op.type, AstEval(n.left, env), AstEval(n.right, env))
      [] n.type = "Attribute" -> AstEval(n.value, env)

\* A result or a raised exception: exc = "None" when the call returned;
\* evaluated is a history field, TRUE once eval() has been called
Returned(v) ==
    [exc |-> "None", status |-> 200, detail |-> "", value |-> v, evaluated |-> TRUE]
Raised(status, detail) ==
    [exc |-> "HTTPException", status |-> status, detail |-> detail, value |-> 0,
     evaluated |-> FALSE]
\* an exception other than HTTPException leaves the function: the server
\* answers 500
Escaped(e) ==
    [exc |-> e, status |-> 500, detail |-> e, value |-> 0, evaluated |-> TRUE]

\* line 130: float(eval(...)); the strings of this model are not numerals
FloatOf(v) ==
    IF v.exc # "None" THEN Escaped(v.exc)
    ELSE IF v.kind = "str" THEN Escaped("ValueError")
    ELSE Returned(v.value)

\* lines 122-130, once the loop over ast.walk(tree) has ended with chk
EvalChecked(tree, env, chk) ==
    IF chk # "ok" THEN Raised(400, chk) ELSE FloatOf(AstEval(tree, env))

\* lines 122-130, for a parsed tree
EvalTree(tree, env) == EvalChecked(tree, env, WalkCheck(AstWalk(<<tree>>), env))

\* lines 117-120, with tree the outcome of ast.parse
EvalParsed(tree, env) ==
    IF tree.type = "SyntaxError" THEN Raised(400, "parse") ELSE EvalTree(tree, env)

eval_formula(expr, env) == EvalParsed(AstParse(expr), env)

----------------------------------------------------------------------------
(* _recalc_sections *)

\* EstimateLineIn and EstimateSectionIn, with the fields the calculation
\* and the store read
Line(order, mode, qty, price, base, formula) ==
    [line_order |-> order, name |-> "item", spec |-> NoneStr, unit |-> "EA",
     calc_mode |-> mode, qty |-> qty, unit_price |-> price,
     amount |-> NoneInt, base_section_type |-> base, formula |-> formula,
     source_type |-> "NONE", source_id |-> NoneInt]

Section(order, type, lines) ==
    [section_order |-> order, section_type |-> type, lines |-> lines]

DefaultSection == Section(1, "MANUAL", <<>>)

calc_normal(line) ==
    LET qty == line.qty
        unit_price == IF line.unit_price = NoneInt THEN 0 ELSE line.unit_price
    IN qty * unit_price

\* st of one section in pass 1: the NORMAL lines only
RECURSIVE NormalSum(_)
NormalSum(lines) ==
    IF lines = <<>> THEN 0
    ELSE (IF Head(lines).calc_mode = "NORMAL" THEN calc_normal(Head(lines)) ELSE 0)
         + NormalSum(Tail(lines))

\* what pass 1 writes into subtotals for one section
Pass1Store(subtotals, sec) ==
    DictSet(subtotals, sec.section_type, NormalSum(sec.lines))

RECURSIVE Pass1(_, _)
Pass1(sections, subtotals) ==
    IF sections = <<>> THEN subtotals
    ELSE Pass1(Tail(sections), Pass1Store(subtotals, Head(sections)))

\* the environment of a FORMULA line
FormulaEnv(subtotals) == [k \in DOMAIN subtotals |-> subtotals[k]]

\* the amount of one line in pass 2
LineAmount(sec, ln, subtotals) ==
    CASE ln.calc_mode = "NORMAL" -> Returned(calc_normal(ln))
      [] ln.calc_mode = "PERCENT_OF_SUBTOTAL" ->
            LET base == IF ln.base_section_type = NoneStr
                        THEN sec.section_type ELSE ln.base_section_type
                base_amt == DictGet(subtotals, base, 0)
            IN Returned((base_amt * ln.qty) \div 100)
      [] ln.calc_mode = "FORMULA" ->
            IF ln.formula = NoneStr \/ ln.formula = ""
            THEN Returned(0)
            ELSE eval_formula(ln.formula, FormulaEnv(subtotals))
      [] OTHER -> Returned(0)

\* an entry that keeps the amount the caller sent, when there is one
SerializedCallerAmount(sec, ln, amt, i, j) ==
    [section_type |-> sec.section_type, section_order |-> sec.section_order,
     line_order |-> ln.line_order, name |-> ln.name, spec |-> ln.spec,
     unit |-> ln.unit, qty |-> ln.qty, unit_price |-> ln.unit_price,
     amount |-> IF ln.amount # NoneInt THEN ln.amount ELSE amt,
     calc_mode |-> ln.calc_mode,
     base_section_type |-> ln.base_section_type, formula |-> ln.formula,
     source_type |-> ln.source_type, source_id |-> ln.source_id,
     g_sec |-> i, g_line |-> j, g_amount |-> ln.amount]

\* one entry of serialized_lines; g_sec, g_line and g_amount are history
\* fields (the position of the submitted section and line, the amount the
\* caller sent), read by no modelled code
Serialized(sec, ln, amt, i, j) ==
    [section_type |-> sec.section_type, section_order |-> sec.section_order,
     line_order |-> ln.line_order, name |-> ln.name, spec |-> ln.spec,
     unit |-> ln.unit, qty |-> ln.qty, unit_price |-> ln.unit_price,
     amount |-> amt, calc_mode |-> ln.calc_mode,
     base_section_type |-> ln.base_section_type, formula |-> ln.formula,
     source_type |-> ln.source_type, source_id |-> ln.source_id,
     g_sec |-> i, g_line |-> j, g_amount |-> ln.amount]

\* the inner loop of pass 2 over the lines of section number i, from line j;
\* Pass2Line is one turn of it, a the amount of line j or what it raised
RECURSIVE Pass2Lines(_, _, _, _, _, _)
Pass2Line(sec, i, j, subtotals, st, out, a) ==
    IF a.exc # "None"
    THEN [exc |-> a.exc, status |-> a.status, detail |-> a.detail,
          st |-> st, lines |-> out]
    ELSE Pass2Lines(sec, i, j + 1, subtotals, st + a.value,
                    Append(out, Serialized(sec, sec.lines[j], a.value, i, j)))

Pass2Lines(sec, i, j, subtotals, st, out) ==
    IF j > Len(sec.lines)
    THEN [exc |-> "None", status |-> 200, detail |-> "", st |-> st, lines |-> out]
    ELSE Pass2Line(sec, i, j, subtotals, st, out,
                   LineAmount(sec, sec.lines[j], subtotals))

\* what pass 2 writes into subtotals once a section is done
Pass2Store(subtotals, sec, st) == DictSet(subtotals, sec.section_type, st)

\* the outer loop of pass 2, from section number i; Pass2Section is one turn
\* of it, r the outcome of the inner loop for section i
RECURSIVE Pass2(_, _, _, _)
Pass2Section(sections, i, subtotals, out, r) ==
    IF r.exc # "None"
    THEN [exc |-> r.exc, status |-> r.status, detail |-> r.detail,
          subtotals |-> subtotals, lines |-> out]
    ELSE Pass2(sections, i + 1, Pass2Store(subtotals, sections[i], r.st), r.lines)

Pass2(sections, i, subtotals, out) ==
    IF i > Len(sections)
    THEN [exc |-> "None", status |-> 200, detail |-> "",
          subtotals |-> subtotals, lines |-> out]
    ELSE Pass2Section(sections, i, subtotals, out,
                      Pass2Lines(sections[i], i, 1, subtotals, 0, out))

\* float(round(subtotal_all * 0.10)): Python round() is round-half-to-even
TaxOf(subtotal_all) ==
    LET q == subtotal_all \div 10
        r == subtotal_all % 10
    IN IF r > 5 \/ (r = 5 /\ q % 2 = 1) THEN q + 1 ELSE q

\* a total that leaves the tax out
TotalOfNoTax(subtotal_all, tax) == subtotal_all

TotalOf(subtotal_all, tax) == subtotal_all + tax

\* lines 202-205: the return value, from the subtotals and lines of pass 2
RecalcTotals(subtotals, lines, subtotal_all, tax) ==
    [exc |-> "None", status |-> 200, detail |-> "", subtotals |-> subtotals,
     subtotal_all |-> subtotal_all, tax |-> tax,
     total |-> TotalOf(subtotal_all, tax), serialized_lines |-> lines]

RecalcSum(subtotals, lines, subtotal_all) ==
    RecalcTotals(subtotals, lines, subtotal_all, TaxOf(subtotal_all))

RecalcReturn(p2) ==
    IF p2.exc # "None"
    THEN [exc |-> p2.exc, status |-> p2.status, detail |-> p2.detail,
          subtotals |-> EmptyDict,
          subtotal_all |-> 0, tax |-> 0, total |-> 0, serialized_lines |-> <<>>]
    ELSE RecalcSum(p2.subtotals, p2.lines, SumValues(p2.subtotals))

\* an empty list left empty
KeepEmpty(sections) == sections

\* lines 140-141: an empty list becomes one MANUAL section
OrDefault(sections) == IF sections = <<>> THEN <<DefaultSection>> ELSE sections

\* lines 143-200 on a non-empty list
RecalcPasses(ss) == RecalcReturn(Pass2(ss, 1, Pass1(ss, EmptyDict), <<>>))

recalc_sections(sections) == RecalcPasses(OrDefault(sections))

----------------------------------------------------------------------------
(* Inputs of the calculation *)

NormalLine(order, qty, price) ==
    Line(order, "NORMAL", qty, price, NoneStr, NoneStr)
PercentLine(order, qty, base) ==
    Line(order, "PERCENT_OF_SUBTOTAL", qty, NoneInt, base, NoneStr)
FormulaLine(order, formula) ==
    Line(order, "FORMULA", 1, NoneInt, NoneStr, formula)

\* the most sections in one submitted list
MaxSections == 3

\* section types and line lists the submitted sections are built from
CalcTypes == {"MATERIAL", "LABOR", "PROFIT"}
CalcLineLists ==
    { <<>>,
      <<NormalLine(1, 1, 10)>>,
      <<NormalLine(1, 3, 5), PercentLine(2, 100, NoneStr)>>,
      <<PercentLine(1, 200, "MATERIAL")>>,
      <<FormulaLine(1, "MATERIAL + LABOR")>>,
      <<NormalLine(1, 2, NoneInt), FormulaLine(2, "MATERIAL * 2")>> }

SeqsUpTo(S, n) == UNION {[1..k -> S] : k \in 0..n}

\* section lists of at most MaxSections sections, section_order = position
CalcInputs ==
    { [i \in 1..Len(s) |-> Section(i, s[i][1], s[i][2])] :
        s \in SeqsUpTo(CalcTypes \X CalcLineLists, MaxSections) }

NotRun ==
    [exc |-> "NotRun", status |-> 0, detail |-> "", subtotals |-> EmptyDict,
     subtotal_all |-> 0, tax |-> 0, total |-> 0, serialized_lines |-> <<>>]

----------------------------------------------------------------------------
(* The store: rows, sequences, and the statements of a database session *)

\* rows of the projects and products tables (read only here)
ProjectIds == {1, 2}
ProductIds == {7}

EmptyRows ==
    [estimates |-> {}, revisions |-> {}, sections |-> {}, items |-> {}]

\* the rows after one SQL statement of the service
ExecStmt(rows, s) ==
    CASE s.stmt = "INSERT_ESTIMATE" -> [rows EXCEPT !.estimates = @ \cup {s.row}]
      [] s.stmt = "INSERT_REVISION" -> [rows EXCEPT !.revisions = @ \cup {s.row}]
      [] s.stmt = "INSERT_SECTION" -> [rows EXCEPT !.sections = @ \cup {s.row}]
      [] s.stmt = "INSERT_ITEM" -> [rows EXCEPT !.items = @ \cup {s.row}]
      [] s.stmt = "UPDATE_REVISION_STATUS" ->
            [rows EXCEPT !.revisions =
                {IF r.id = s.id THEN [r EXCEPT !.status = s.status] ELSE r : r \in @}]
      [] s.stmt = "UPDATE_REVISION_TOTALS" ->
            [rows EXCEPT !.revisions =
                {IF r.id = s.id
                 THEN [r EXCEPT !.subtotal = s.subtotal, !.tax = s.tax, !.total = s.total]
                 ELSE r : r \in @}]
      [] s.stmt = "UPDATE_ESTIMATE_CURRENT" ->
            [rows EXCEPT !.estimates =
                {IF e.id = s.id
                 THEN [e EXCEPT !.current_revision_id = s.rid,
                                !.title = IF s.title = NoneStr THEN @ ELSE s.title]
                 ELSE e : e \in @}]
      [] s.stmt = "UPDATE_ESTIMATE_STATE" ->
            [rows EXCEPT !.estimates =
                {IF e.id = s.id THEN [e EXCEPT !.business_state = s.business_state]
                 ELSE e : e \in @}]

RECURSIVE Replay(_, _)
Replay(rows, log) ==
    IF log = <<>> THEN rows ELSE Replay(ExecStmt(rows, Head(log)), Tail(log))

\* The context of a request: the committed rows, whether estimates has the
\* receiver_name column, the sequences, the statements its session has
\* executed and not committed, its local variables, and the exception raised
NoLocals ==
    [new_id |-> 0, revision_id |-> 0, cur_rev_id |-> 0, cur_no |-> 0,
     subtotal_all |-> 0, tax |-> 0, total |-> 0, project_id |-> 0,
     submitted |-> 0]

Ctx(rows, col, sq, log, loc) ==
    [rows |-> rows, col |-> col, seq |-> sq, log |-> log, loc |-> loc,
     exc |-> "None", status |-> 200, detail |-> ""]

\* what the session reads: committed rows and its own statements
View(c) == Replay(c.rows, c.log)

Exec(c, s) == [c EXCEPT !.log = Append(@, s)]

Raise(c, status, detail) ==
    [c EXCEPT !.exc = "HTTPException", !.status = status, !.detail = detail]

\* an exception raised in a callee leaves the caller too
Propagate(c, r) == [c EXCEPT !.exc = r.exc, !.status = r.status, !.detail = r.detail]

\* db.commit()
Commit(c) == [c EXCEPT !.rows = Replay(c.rows, c.log), !.log = <<>>]

\* the session is closed without commit when the request ends in an exception
Rollback(c) == [c EXCEPT !.log = <<>>]

ensure_receiver_column(c) ==
    IF c.col THEN c ELSE [Commit(c) EXCEPT !.col = TRUE]

----------------------------------------------------------------------------
(* _insert_sections_and_lines *)

\* sorted(sections, key=lambda s: s.section_order) over (position, section)
\* pairs: a stable insertion sort
RECURSIVE InsertSorted(_, _)
InsertSorted(sorted, p) ==
    IF sorted = <<>> THEN <<p>>
    ELSE IF Head(sorted)[2].section_order <= p[2].section_order
         THEN <<Head(sorted)>> \o InsertSorted(Tail(sorted), p)
         ELSE <<p>> \o sorted

RECURSIVE SortedSections(_, _)
SortedSections(sections, i) ==
    IF i = 0 THEN <<>>
    ELSE InsertSorted(SortedSections(sections, i - 1), <<i, sections[i]>>)

\* the subtotal stored on a section row
SectionSubtotal(subtotals, sec) == DictGet(subtotals, sec.section_type, 0)

\* 1) the loop that inserts the section rows; m is section_id_map
RECURSIVE InsertSections(_, _, _, _, _)
InsertSections(c, revision_id, sorted, subtotals, m) ==
    IF sorted = <<>> THEN [c |-> c, section_id_map |-> m]
    ELSE LET sec == Head(sorted)[2]
             sid == c.seq.sec + 1
             row == [id |-> sid, revision_id |-> revision_id,
                     section_type |-> sec.section_type,
                     section_order |-> sec.section_order,
                     subtotal |-> SectionSubtotal(subtotals, sec),
                     g_sec |-> Head(sorted)[1]]
             c1 == [Exec(c, [stmt |-> "INSERT_SECTION", row |-> row])
                        EXCEPT !.seq.sec = sid]
         IN InsertSections(c1, revision_id, Tail(sorted), subtotals,
                DictSet(m, <<sec.section_type, sec.section_order>>, sid))

\* every product id of the lines taken as valid
AllProductIds(serialized_lines) ==
    {serialized_lines[i].source_id : i \in 1..Len(serialized_lines)}

\* 1.5) the product ids of the lines that exist in products
ValidProductIds(serialized_lines) ==
    {serialized_lines[i].source_id : i \in
        {j \in 1..Len(serialized_lines) :
            /\ serialized_lines[j].source_type = "PRODUCT"
            /\ serialized_lines[j].source_id # NoneInt}} \cap ProductIds

ItemCategory(section_type) ==
    IF section_type \in {"MATERIAL", "LABOR"} THEN section_type ELSE "ETC"

\* the section a line is attached to
LineSectionId(m, ln) == m[<<ln.section_type, ln.section_order>>]

\* 2) the loop that inserts the item rows
RECURSIVE InsertLines(_, _, _, _, _)
InsertLines(c, revision_id, lines, m, valid) ==
    IF lines = <<>> THEN c
    ELSE LET ln == Head(lines)
             pid0 == IF ln.source_type = "PRODUCT" THEN ln.source_id ELSE NoneInt
             product_id == IF pid0 # NoneInt /\ pid0 \notin valid THEN NoneInt ELSE pid0
             iid == c.seq.item + 1
             row == [id |-> iid, revision_id |-> revision_id,
                     section_id |-> LineSectionId(m, ln),
                     line_no |-> ln.line_order, line_order |-> ln.line_order,
                     item_category |-> ItemCategory(ln.section_type),
                     product_id |-> product_id,
                     item_name_snapshot |-> ln.name, spec_snapshot |-> ln.spec,
                     unit_snapshot |-> ln.unit, qty |-> ln.qty,
                     unit_price |-> IF ln.unit_price = NoneInt THEN 0 ELSE ln.unit_price,
                     line_total |-> ln.amount, calc_mode |-> ln.calc_mode,
                     base_section_type |-> ln.base_section_type,
                     formula |-> ln.formula,
                     g_sec |-> ln.g_sec, g_line |-> ln.g_line,
                     g_amount |-> ln.g_amount, g_source_id |-> ln.source_id]
             c1 == [Exec(c, [stmt |-> "INSERT_ITEM", row |-> row])
                        EXCEPT !.seq.item = iid]
         IN InsertLines(c1, revision_id, Tail(lines), m, valid)

\* lines 372-452, s1 the outcome of the section loop
InsertedSections(s1, revision_id, r) ==
    InsertLines(s1.c, revision_id, r.serialized_lines, s1.section_id_map,
                ValidProductIds(r.serialized_lines))

\* line 452: the totals are returned (kept in the locals of the context)
Returning(c, r) ==
    [c EXCEPT !.loc.subtotal_all = r.subtotal_all, !.loc.tax = r.tax,
              !.loc.total = r.total]

\* lines 337-452, r what _recalc_sections returned or raised
Recalculated(c, revision_id, ss, r) ==
    IF r.exc # "None" THEN Propagate(c, r)
    ELSE Returning(
            InsertedSections(
                InsertSections(c, revision_id, SortedSections(ss, Len(ss)),
                               r.subtotals, EmptyDict),
                revision_id, r),
            r)

InsertNonEmpty(c, revision_id, ss) ==
    Recalculated(c, revision_id, ss, recalc_sections(ss))

\* the number of sections the request submitted is kept with the request
\* (a history field of the response)
Submitted(c, sections) == [c EXCEPT !.loc.submitted = Len(sections)]

insert_sections_and_lines(c, revision_id, sections) ==
    InsertNonEmpty(Submitted(c, sections), revision_id, OrDefault(sections))

----------------------------------------------------------------------------
(* create_estimate, update_estimate, update_business_state, api_create *)

ProjectName(pid) == IF pid = 1 THEN "P1" ELSE "P2"

_get_estimate(c, estimate_id) ==
    {e \in View(c).estimates : e.id = estimate_id /\ e.deleted_at = NoneStr}

_get_revision(c, revision_id) ==
    {r \in View(c).revisions : r.id = revision_id}

\* lines 469-504: the estimates row and revision 1 are inserted
CreateHeader(c0, payload, user, new_id, revision_id) ==
    Exec(Exec([c0 EXCEPT !.seq.est = new_id, !.seq.rev = revision_id,
                         !.loc.new_id = new_id, !.loc.revision_id = revision_id],
              [stmt |-> "INSERT_ESTIMATE",
               row |-> [id |-> new_id, project_id |-> payload.project_id,
                        title |-> IF payload.title = NoneStr
                                  THEN ProjectName(payload.project_id)
                                  ELSE payload.title,
                        business_state |-> "ONGOING",
                        current_revision_id |-> NoneInt, created_by |-> user,
                        deleted_at |-> NoneStr]]),
         [stmt |-> "INSERT_REVISION",
          row |-> [id |-> revision_id, estimate_id |-> new_id,
                   revision_no |-> 1, reason |-> NoneStr,
                   subtotal |-> 0, tax |-> 0, total |-> 0,
                   status |-> "DRAFT", created_by |-> user]])

\* lines 510-515, c3 the outcome of _insert_sections_and_lines
CreateFinish(c3) ==
    IF c3.exc # "None" THEN c3
    ELSE Commit(Exec(Exec(c3,
            [stmt |-> "UPDATE_REVISION_TOTALS", id |-> c3.loc.revision_id,
             subtotal |-> c3.loc.subtotal_all, tax |-> c3.loc.tax,
             total |-> c3.loc.total]),
            [stmt |-> "UPDATE_ESTIMATE_CURRENT", id |-> c3.loc.new_id,
             rid |-> c3.loc.revision_id, title |-> NoneStr]))

\* lines 458-516, after _ensure_receiver_column; user is the id of
\* current_user, 0 when it has none
CreateChecked(c0, payload, user) ==
    IF user = 0 THEN Raise(c0, 401, "login")
    ELSE IF payload.project_id \notin ProjectIds THEN Raise(c0, 404, "project")
    ELSE CreateFinish(
            insert_sections_and_lines(
                CreateHeader(c0, payload, user, c0.seq.est + 1, c0.seq.rev + 1),
                c0.seq.rev + 1, payload.sections))

create_estimate(c, payload, user) ==
    CreateChecked(ensure_receiver_column(c), payload, user)

\* the existence check of api_create
ProjectHasEstimate(c, project_id) ==
    \E e \in View(c).estimates : e.project_id = project_id /\ e.deleted_at = NoneStr

\* the project a create request names is kept with the request (a history
\* field of the response)
ForProject(c, project_id) == [c EXCEPT !.loc.project_id = project_id]

\* a create that goes on without the existence check
api_create_unchecked(c, payload, user) ==
    create_estimate(ForProject(c, payload.project_id), payload, user)

api_create(c, payload, user) ==
    IF ProjectHasEstimate(c, payload.project_id)
    THEN Raise(ForProject(c, payload.project_id), 400, "duplicate")
    ELSE create_estimate(ForProject(c, payload.project_id), payload, user)

\* lines 669-673, e the estimates row and rs the rows _get_revision finds
ReadRevision(c0, e, rs) ==
    IF e.current_revision_id = NoneInt THEN Raise(c0, 500, "current_revision_id")
    ELSE IF rs = {} THEN Raise(c0, 404, "revision")
    ELSE [c0 EXCEPT !.loc.cur_rev_id = e.current_revision_id,
                    !.loc.cur_no = (CHOOSE x \in rs : TRUE).revision_no]

ReadCurrent(c0, e) == ReadRevision(c0, e, _get_revision(c0, e.current_revision_id))

\* lines 664-673, es the rows _get_estimate finds
ReadEstimate(c0, user, es) ==
    IF user = 0 THEN Raise(c0, 401, "login")
    ELSE IF es = {} THEN Raise(c0, 404, "estimate")
    ELSE ReadCurrent(c0, CHOOSE x \in es : TRUE)

ReadChecked(c0, estimate_id, user) ==
    ReadEstimate(c0, user, _get_estimate(c0, estimate_id))

\* update_estimate, lines 662-673: the checks and the reads
update_read(c, estimate_id, user) ==
    ReadChecked(ensure_receiver_column(c), estimate_id, user)

\* a revise that leaves the current revision as it is
update_lock_skip(c) == c

\* a revise that commits as soon as the current revision is LOCKED
update_lock_commit(c) ==
    Commit(Exec(c, [stmt |-> "UPDATE_REVISION_STATUS", id |-> c.loc.cur_rev_id,
                    status |-> "LOCKED"]))

\* lines 675-676: the current revision is set to LOCKED
update_lock(c) ==
    Exec(c, [stmt |-> "UPDATE_REVISION_STATUS", id |-> c.loc.cur_rev_id,
             status |-> "LOCKED"])

\* a numbering that skips a number
NextRevisionNoSkip(cur_no) == cur_no + 2

\* the number given to the new revision
NextRevisionNo(cur_no) == cur_no + 1

\* lines 679-689: the new revision row
InsertRevision(c, estimate_id, payload, user, new_rev_id) ==
    Exec([c EXCEPT !.seq.rev = new_rev_id, !.loc.revision_id = new_rev_id],
         [stmt |-> "INSERT_REVISION",
          row |-> [id |-> new_rev_id, estimate_id |-> estimate_id,
                   revision_no |-> NextRevisionNo(c.loc.cur_no),
                   reason |-> payload.reason,
                   subtotal |-> 0, tax |-> 0, total |-> 0,
                   status |-> "DRAFT", created_by |-> user]])

\* lines 694-695, c2 the outcome of _insert_sections_and_lines
UpdateTotals(c2) ==
    IF c2.exc # "None" THEN c2
    ELSE Exec(c2, [stmt |-> "UPDATE_REVISION_TOTALS", id |-> c2.loc.revision_id,
                   subtotal |-> c2.loc.subtotal_all, tax |-> c2.loc.tax,
                   total |-> c2.loc.total])

\* lines 678-695: the new revision, its sections and lines, its totals
update_insert(c, estimate_id, payload, user) ==
    UpdateTotals(
        insert_sections_and_lines(
            InsertRevision(c, estimate_id, payload, user, c.seq.rev + 1),
            c.seq.rev + 1, payload.sections))

\* lines 697-713: the header update that repoints current_revision_id
update_repoint(c, estimate_id, payload) ==
    Exec(c, [stmt |-> "UPDATE_ESTIMATE_CURRENT", id |-> estimate_id,
             rid |-> c.loc.revision_id, title |-> payload.title])

\* lines 697-715, c3 the outcome of lines 678-695
UpdateFinish(c3, estimate_id, payload) ==
    IF c3.exc # "None" THEN c3
    ELSE Commit(update_repoint(c3, estimate_id, payload))

\* lines 675-715, c1 the outcome of lines 662-673
UpdateWrite(c1, estimate_id, payload, user) ==
    IF c1.exc # "None" THEN c1
    ELSE UpdateFinish(update_insert(update_lock(c1), estimate_id, payload, user),
                      estimate_id, payload)

update_estimate(c, estimate_id, payload, user) ==
    UpdateWrite(update_read(c, estimate_id, user), estimate_id, payload, user)

update_business_state(c, estimate_id, business_state) ==
    IF _get_estimate(c, estimate_id) = {} THEN Raise(c, 404, "estimate")
    ELSE Commit(Exec(c, [stmt |-> "UPDATE_ESTIMATE_STATE", id |-> estimate_id,
                         business_state |-> business_state]))

----------------------------------------------------------------------------
(* get_estimate_detail_by_revision, get_history_details *)

\* what a read returns, or the HTTPException it raises
ReadOk(v) == [exc |-> "None", status |-> 200, detail |-> "", value |-> v]
ReadRaise(status, detail) ==
    [exc |-> "HTTPException", status |-> status, detail |-> detail, value |-> <<>>]

\* lines 785-803: one line of the output
OutLine(ln) ==
    [id |-> ln.id, line_order |-> ln.line_order,
     name |-> ln.item_name_snapshot, spec |-> ln.spec_snapshot,
     unit |-> ln.unit_snapshot, qty |-> ln.qty,
     unit_price |-> ln.unit_price, amount |-> ln.line_total,
     calc_mode |-> ln.calc_mode, base_section_type |-> ln.base_section_type,
     formula |-> ln.formula,
     source_type |-> IF ln.product_id # NoneInt THEN "PRODUCT" ELSE "NONE",
     source_id |-> ln.product_id]

\* the items of one section in the order of the query at lines 748-773:
\* line_order, then id
RECURSIVE LinesOrdered(_)
LinesOrdered(items) ==
    IF items = {} THEN <<>>
    ELSE LET x == CHOOSE y \in items : \A z \in items :
                      \/ y.line_order < z.line_order
                      \/ y.line_order = z.line_order /\ y.id <= z.id
         IN <<OutLine(x)>> \o LinesOrdered(items \ {x})

\* lines 805-814: one section of the output, with the lines sec_map holds
\* for its id
OutSection(sec, items) ==
    [id |-> sec.id, section_order |-> sec.section_order,
     section_type |-> sec.section_type, subtotal |-> sec.subtotal,
     lines |-> LinesOrdered({i \in items : i.section_id = sec.id})]

\* the sections in the order of the query at lines 736-746: section_order
\* (rows with the same section_order come in no specified order)
RECURSIVE SectionsOrdered(_, _)
SectionsOrdered(sections, items) ==
    IF sections = {} THEN <<>>
    ELSE LET x == CHOOSE y \in sections : \A z \in sections :
                      y.section_order <= z.section_order
         IN <<OutSection(x, items)>> \o SectionsOrdered(sections \ {x}, items)

\* lines 816-834: the header of e, the revision fields of r, the sections
DetailOut(e, r, revision_id, out_sections) ==
    [id |-> e.id, project_id |-> e.project_id, title |-> e.title,
     business_state |-> e.business_state,
     revision_id |-> revision_id, revision_no |-> r.revision_no,
     revision_status |-> r.status,
     subtotal |-> r.subtotal, tax |-> r.tax, total |-> r.total,
     sections |-> out_sections]

\* lines 736-834, e and r the rows found
DetailOf(c, e, r, revision_id) ==
    ReadOk(DetailOut(e, r, revision_id,
            SectionsOrdered({x \in View(c).sections : x.revision_id = revision_id},
                            {x \in View(c).items : x.revision_id = revision_id})))

\* lines 733-734, es and rs the rows _get_estimate and _get_revision find
DetailChecked(c, es, rs, revision_id) ==
    IF es = {} THEN ReadRaise(404, "estimate")
    ELSE IF rs = {} THEN ReadRaise(404, "revision")
    ELSE DetailOf(c, CHOOSE x \in es : TRUE, CHOOSE x \in rs : TRUE, revision_id)

get_estimate_detail_by_revision(c, estimate_id, revision_id) ==
    DetailChecked(c, _get_estimate(c, estimate_id), _get_revision(c, revision_id),
                  revision_id)

\* lines 845-857: the ids of the document's revisions, revision_no descending
RECURSIVE RevisionIdsDesc(_)
RevisionIdsDesc(revisions) ==
    IF revisions = {} THEN <<>>
    ELSE LET x == CHOOSE y \in revisions : \A z \in revisions :
                      y.revision_no >= z.revision_no
         IN <<x.id>> \o RevisionIdsDesc(revisions \ {x})

\* a history that keeps the current revision
KeepCurrent(rev_ids, current_rid) == rev_ids

\* lines 859-860: the current revision is left out
ExcludeCurrent(rev_ids, current_rid) ==
    IF current_rid = NoneInt THEN rev_ids
    ELSE SelectSeq(rev_ids, LAMBDA rid : rid # current_rid)

\* line 862: rev_ids[: max(0, int(limit or 10))]
TakeLimit(rev_ids, limit) ==
    LET n == IF limit = 0 THEN 10 ELSE IF limit < 0 THEN 0 ELSE limit
    IN SubSeq(rev_ids, 1, IF n < Len(rev_ids) THEN n ELSE Len(rev_ids))

\* lines 864-867: the detail of each revision id, or the first exception
RECURSIVE HistoryOut(_, _, _, _)
HistoryNext(c, estimate_id, rev_ids, out, d) ==
    IF d.exc # "None" THEN d
    ELSE HistoryOut(c, estimate_id, Tail(rev_ids), Append(out, d.value))

HistoryOut(c, estimate_id, rev_ids, out) ==
    IF rev_ids = <<>> THEN ReadOk(out)
    ELSE HistoryNext(c, estimate_id, rev_ids, out,
            get_estimate_detail_by_revision(c, estimate_id, Head(rev_ids)))

\* lines 843-867, e the estimates row
HistoryOf(c, e, limit) ==
    HistoryOut(c, e.id,
        TakeLimit(
            ExcludeCurrent(
                RevisionIdsDesc({r \in View(c).revisions : r.estimate_id = e.id}),
                e.current_revision_id),
            limit),
        <<>>)

HistoryChecked(c, es, limit) ==
    IF es = {} THEN ReadRaise(404, "estimate")
    ELSE HistoryOf(c, CHOOSE x \in es : TRUE, limit)

get_history_details(c, estimate_id, limit) ==
    HistoryChecked(c, _get_estimate(c, estimate_id), limit)

\* the end of a request: an exception leaves the session uncommitted
Finish(c) == IF c.exc # "None" THEN Rollback(c) ELSE c

----------------------------------------------------------------------------
(* Requests handled one at a time *)

\* the most values drawn from estimate_revisions' id sequence
MaxRevisions == 3

\* section lists submitted by create and revise requests
PayloadBasic ==
    << Section(1, "MATERIAL", <<NormalLine(1, 1, 13)>>),
       Section(2, "PROFIT", <<PercentLine(1, 200, "MATERIAL")>>) >>
PayloadSameType ==
    << Section(1, "MATERIAL", <<NormalLine(1, 1, 10)>>),
       Section(2, "MATERIAL", <<NormalLine(1, 3, 5)>>) >>
PayloadBadFormula ==
    << Section(1, "MATERIAL", <<NormalLine(1, 1, 10)>>),
       Section(2, "OVERHEAD", <<FormulaLine(1, "abs(MATERIAL)")>>) >>
Payloads == {<<>>, PayloadBasic, PayloadSameType, PayloadBadFormula}

Users == {0, 1}
EstimateIds == 1..2
Titles == {NoneStr, "A"}

Response(op, c) ==
    [op |-> op, status |-> c.status, detail |-> c.detail,
     id |-> c.loc.new_id, revision_id |-> c.loc.revision_id,
     project_id |-> c.loc.project_id, submitted |-> c.loc.submitted,
     limit |-> 0, out |-> <<>>]

NoResponse ==
    [op |-> "none", status |-> 0, detail |-> "", id |-> 0, revision_id |-> 0,
     project_id |-> 0, submitted |-> 0, limit |-> 0, out |-> <<>>]

Sessions == {1, 2}
Idle == [pc |-> "idle", op |-> "none", estimate_id |-> 0, user |-> 0,
         payload |-> [project_id |-> 0, title |-> NoneStr, reason |-> NoneStr,
                      sections |-> <<>>],
         log |-> <<>>, loc |-> NoLocals]

Init ==
    /\ db \in {[rows |-> EmptyRows, col |-> b] : b \in BOOLEAN}
    /\ seq = [est |-> 0, rev |-> 0, sec |-> 0, item |-> 0]
    /\ resp = NoResponse
    /\ sess = [s \in Sessions |-> Idle]
    /\ secs = <<>>
    /\ res = NotRun

\* a request runs to its end in its own session
Done(op, c) ==
    /\ db' = [rows |-> c.rows, col |-> c.col]
    /\ seq' = c.seq
    /\ resp' = Response(op, c)
    /\ UNCHANGED <<sess, secs, res>>

Start == Ctx(db.rows, db.col, seq, <<>>, NoLocals)

ApiCreate ==
    \E pid \in ProjectIds \cup {3}, user \in Users, title \in Titles, ss \in Payloads :
        /\ seq.rev < MaxRevisions
        /\ Done("create", Finish(api_create(Start,
                [project_id |-> pid, title |-> title, sections |-> ss], user)))

ApiUpdate ==
    \E eid \in EstimateIds, user \in Users, title \in Titles, ss \in Payloads :
        /\ seq.rev < MaxRevisions
        /\ Done("update", Finish(update_estimate(Start, eid,
                [title |-> title, reason |-> "r", sections |-> ss], user)))

ApiBusinessState ==
    \E eid \in EstimateIds, bs \in BusinessStates :
        Done("business_state", Finish(update_business_state(Start, eid, bs)))

Next == ApiCreate \/ ApiUpdate \/ ApiBusinessState

Spec == Init /\ [][Next]_vars

----------------------------------------------------------------------------
(* Reads of the history and of one revision, between creates and revises *)

\* the most values drawn from estimate_revisions' id sequence before the reads
MaxReadRevisions == 4

\* the largest limit asked of get_history_details
MaxLimit == 3

\* section lists with distinct section_order values
ReadPayloads == {<<>>, PayloadBasic}

ReadCreate ==
    \E pid \in ProjectIds, ss \in ReadPayloads :
        /\ seq.rev < MaxReadRevisions
        /\ Done("create", Finish(api_create(Start,
                [project_id |-> pid, title |-> NoneStr, sections |-> ss], 1)))

ReadUpdate ==
    \E eid \in EstimateIds, ss \in ReadPayloads :
        /\ seq.rev < MaxReadRevisions
        /\ Done("update", Finish(update_estimate(Start, eid,
                [title |-> NoneStr, reason |-> "r", sections |-> ss], 1)))

\* a read ends: its arguments and what it returned, or the exception
ReadDone(op, estimate_id, revision_id, limit, r) ==
    /\ resp' = [op |-> op, status |-> r.status, detail |-> r.detail,
                id |-> estimate_id, revision_id |-> revision_id,
                project_id |-> 0, submitted |-> 0, limit |-> limit,
                out |-> r.value]
    /\ UNCHANGED <<db, seq, sess, secs, res>>

\* api_history_details: limit is at least 1 (Query(ge=1, le=10))
ApiHistoryDetails ==
    \E eid \in EstimateIds, limit \in 1..MaxLimit :
        ReadDone("history_details", eid, 0, limit,
                 get_history_details(Start, eid, limit))

DetailByRevision ==
    \E eid \in EstimateIds, rid \in 1..MaxReadRevisions :
        ReadDone("detail_by_revision", eid, rid, 0,
                 get_estimate_detail_by_revision(Start, eid, rid))

NextRead == ReadCreate \/ ReadUpdate \/ ApiHistoryDetails \/ DetailByRevision

SpecRead == Init /\ [][NextRead]_vars

----------------------------------------------------------------------------
(* Creates and revises whose lines carry product references, caller-supplied
   amounts, or sit in sections with the same (section_type, section_order) *)

\* the most values drawn from estimate_revisions' id sequence
MaxLineRevisions == 3

\* source_id values a client sends: 7 is in products, 8 is not
SourceIds == ProductIds \cup {8}

\* amount values a client sends
CallerAmounts == {NoneInt, 0, 999}

\* a NORMAL line picked from the product search
ProductLine(order, qty, price, source_id) ==
    [NormalLine(order, qty, price) EXCEPT !.source_type = "PRODUCT",
                                          !.source_id = source_id]

PayloadProduct(source_id) ==
    << Section(1, "MATERIAL", <<ProductLine(1, 2, 5, source_id)>>),
       Section(2, "PROFIT", <<PercentLine(1, 100, "MATERIAL")>>) >>

\* the same lines with amount set by the caller
RECURSIVE LinesWithAmount(_, _)
LinesWithAmount(lines, amount) ==
    IF lines = <<>> THEN <<>>
    ELSE <<[Head(lines) EXCEPT !.amount = amount]>>
            \o LinesWithAmount(Tail(lines), amount)

RECURSIVE WithAmount(_, _)
WithAmount(sections, amount) ==
    IF sections = <<>> THEN <<>>
    ELSE <<[Head(sections) EXCEPT !.lines = LinesWithAmount(@, amount)]>>
            \o WithAmount(Tail(sections), amount)

PayloadFormula ==
    << Section(1, "MATERIAL", <<NormalLine(1, 2, 10)>>),
       Section(2, "LABOR", <<NormalLine(1, 1, 5)>>),
       Section(3, "OVERHEAD", <<FormulaLine(1, "MATERIAL + LABOR")>>) >>

\* two sections that leave section_order at its default
PayloadSameKey ==
    << Section(1, "MATERIAL", <<NormalLine(1, 1, 10)>>),
       Section(1, "MATERIAL", <<NormalLine(2, 3, 5)>>) >>

\* the section lists that differ only in the product reference
ProductPayloads == {PayloadProduct(source_id) : source_id \in SourceIds}

\* the section lists that differ only in the amounts the caller sent
AmountPayloads(base) == {WithAmount(base, amount) : amount \in CallerAmounts}

LinePayloads ==
    ProductPayloads \cup AmountPayloads(PayloadBasic)
        \cup AmountPayloads(PayloadFormula) \cup {PayloadSameKey}

LinesCreate ==
    \E pid \in ProjectIds, ss \in LinePayloads :
        /\ seq.rev < MaxLineRevisions
        /\ Done("create", Finish(api_create(Start,
                [project_id |-> pid, title |-> NoneStr, sections |-> ss], 1)))

LinesUpdate ==
    \E eid \in EstimateIds, ss \in LinePayloads :
        /\ seq.rev < MaxLineRevisions
        /\ Done("update", Finish(update_estimate(Start, eid,
                [title |-> NoneStr, reason |-> "r", sections |-> ss], 1)))

NextLines == LinesCreate \/ LinesUpdate

SpecLines == Init /\ [][NextLines]_vars

----------------------------------------------------------------------------
(* Requests that overlap: each in its own session, statement by statement, *)
(* against a read-committed store                                          *)

\* the most values drawn from estimate_revisions' id sequence by overlapping requests
MaxConcRevisions == 3

ConcPayloads == {<<>>, PayloadBasic}

CtxOf(s) == Ctx(db.rows, db.col, seq, sess[s].log, sess[s].loc)

\* another session holds the lock of a revisions row it has updated and not committed
RevisionRowLocked(s, rid) ==
    \E t \in Sessions \ {s} : \E k \in 1..Len(sess[t].log) :
        /\ sess[t].log[k].stmt \in {"UPDATE_REVISION_STATUS", "UPDATE_REVISION_TOTALS"}
        /\ sess[t].log[k].id = rid

\* another session holds the lock of an estimates row it has updated and not committed
EstimateRowLocked(s, eid) ==
    \E t \in Sessions \ {s} : \E k \in 1..Len(sess[t].log) :
        /\ sess[t].log[k].stmt \in {"UPDATE_ESTIMATE_CURRENT", "UPDATE_ESTIMATE_STATE"}
        /\ sess[t].log[k].id = eid

\* session s, serving request rq, goes on to pc, or its request ends here
\* with an exception or a commit
Step(s, rq, c, pc) ==
    /\ db' = [rows |-> c.rows, col |-> c.col]
    /\ seq' = c.seq
    /\ IF c.exc # "None" \/ pc = "idle"
       THEN /\ resp' = Response(rq.op, c)
            /\ sess' = [sess EXCEPT ![s] = Idle]
       ELSE /\ resp' = resp
            /\ sess' = [sess EXCEPT ![s] =
                    [pc |-> pc, op |-> rq.op, estimate_id |-> rq.estimate_id,
                     user |-> rq.user, payload |-> rq.payload,
                     log |-> c.log, loc |-> c.loc]]
    /\ UNCHANGED <<secs, res>>

Request(op, eid, pid, reason, ss) ==
    [op |-> op, estimate_id |-> eid, user |-> 1,
     payload |-> [project_id |-> pid, title |-> NoneStr, reason |-> reason,
                  sections |-> ss]]

\* api_create, lines 80-93: the existence check
ApiCreateCheck(c, project_id) ==
    IF ProjectHasEstimate(c, project_id)
    THEN Raise(ForProject(c, project_id), 400, "duplicate")
    ELSE ForProject(c, project_id)

ConcCreateCheck(s) ==
    \E pid \in {1}, ss \in ConcPayloads :
        /\ sess[s].pc = "idle"
        /\ seq.rev < MaxConcRevisions
        /\ Step(s, Request("create", 0, pid, NoneStr, ss),
                ApiCreateCheck(CtxOf(s), pid), "create")

\* api_create, line 94: create_estimate, which inserts new rows and commits
ConcCreate(s) ==
    /\ sess[s].pc = "create"
    /\ Step(s, sess[s], create_estimate(CtxOf(s), sess[s].payload, sess[s].user), "idle")

\* update_estimate, lines 662-673
ConcUpdateRead(s) ==
    \E eid \in {1}, ss \in ConcPayloads :
        /\ sess[s].pc = "idle"
        /\ seq.rev < MaxConcRevisions
        /\ Step(s, Request("update", eid, 0, "r", ss),
                update_read(CtxOf(s), eid, 1), "lock")

\* lines 675-676: waits while another session holds the row's lock
ConcUpdateLock(s) ==
    /\ sess[s].pc = "lock"
    /\ ~RevisionRowLocked(s, sess[s].loc.cur_rev_id)
    /\ Step(s, sess[s], update_lock(CtxOf(s)), "insert")

\* lines 678-695
ConcUpdateInsert(s) ==
    /\ sess[s].pc = "insert"
    /\ Step(s, sess[s],
            update_insert(CtxOf(s), sess[s].estimate_id, sess[s].payload, sess[s].user),
            "repoint")

\* lines 697-713: waits while another session holds the row's lock
ConcUpdateRepoint(s) ==
    /\ sess[s].pc = "repoint"
    /\ ~EstimateRowLocked(s, sess[s].estimate_id)
    /\ Step(s, sess[s],
            update_repoint(CtxOf(s), sess[s].estimate_id, sess[s].payload), "commit")

\* line 714
ConcUpdateCommit(s) ==
    /\ sess[s].pc = "commit"
    /\ Step(s, sess[s], Commit(CtxOf(s)), "idle")

NextConc ==
    \E s \in Sessions :
        \/ ConcCreateCheck(s)
        \/ ConcCreate(s)
        \/ ConcUpdateRead(s)
        \/ ConcUpdateLock(s)
        \/ ConcUpdateInsert(s)
        \/ ConcUpdateRepoint(s)
        \/ ConcUpdateCommit(s)

SpecConc == Init /\ [][NextConc]_vars

----------------------------------------------------------------------------
(* _recalc_sections applied to every bounded section list *)

InitCalc ==
    /\ db = [rows |-> EmptyRows, col |-> TRUE]
    /\ seq = [est |-> 0, rev |-> 0, sec |-> 0, item |-> 0]
    /\ resp = NoResponse
    /\ sess = [s \in Sessions |-> Idle]
    /\ secs \in CalcInputs
    /\ res = NotRun

Recalc ==
    /\ res.exc = "NotRun"
    /\ res' = recalc_sections(secs)
    /\ UNCHANGED <<db, seq, resp, sess, secs>>

NextCalc == Recalc

SpecCalc == InitCalc /\ [][NextCalc]_vars

----------------------------------------------------------------------------
(* _eval_formula applied to every formula and environment of the model *)

EvalFormulas ==
    {"MATERIAL + LABOR", "MATERIAL * 2", "-LABOR + MATERIAL", "MATERIAL / LABOR",
     "MATERIAL ** 2", "'abc'", "abs(MATERIAL)", "MATERIAL.real", "MATERIAL[0]",
     "MATERIAL < LABOR", "MATERIAL and LABOR", "FOO + 1", "MATERIAL +"}

\* environments over some of the names MATERIAL and LABOR; every MATERIAL
\* value is a multiple of every LABOR value other than 0
EvalEnvs ==
    {EmptyDict}
    \cup {DictSet(EmptyDict, "MATERIAL", m) : m \in {0, 10, 20}}
    \cup {DictSet(EmptyDict, "LABOR", l) : l \in {0, 5, 10}}
    \cup {DictSet(DictSet(EmptyDict, "MATERIAL", m), "LABOR", l) :
                m \in {0, 10, 20}, l \in {0, 5, 10}}

EvalNotRun ==
    [exc |-> "NotRun", status |-> 0, detail |-> "", value |-> 0, evaluated |-> FALSE]

InitEval ==
    /\ db = [rows |-> EmptyRows, col |-> TRUE]
    /\ seq = [est |-> 0, rev |-> 0, sec |-> 0, item |-> 0]
    /\ resp = NoResponse
    /\ sess = [s \in Sessions |-> Idle]
    /\ secs \in {[formula |-> f, env |-> e] : f \in EvalFormulas, e \in EvalEnvs}
    /\ res = EvalNotRun

Eval ==
    /\ res.exc = "NotRun"
    /\ res' = eval_formula(secs.formula, secs.env)
    /\ UNCHANGED <<db, seq, resp, sess, secs>>

NextEval == Eval

SpecEval == InitEval /\ [][NextEval]_vars

----------------------------------------------------------------------------
(* Properties of the revision store *)

RevisionsOf(rows, eid) == {r \in rows.revisions : r.estimate_id = eid}
RevisionIds(rows) == {r.id : r \in rows.revisions}
SectionsOf(rows, rid) == {x \in rows.sections : x.revision_id = rid}
ItemsOf(rows, rid) == {x \in rows.items : x.revision_id = rid}

RECURSIVE SumLineTotals(_)
SumLineTotals(items) ==
    IF items = {} THEN 0
    ELSE LET x == CHOOSE y \in items : TRUE IN x.line_total + SumLineTotals(items \ {x})

\* C1: the revision numbers of every document are exactly 1..N, without
\* gap or duplicate, in creation order (the order of the ids drawn from the
\* sequence), and every revision that is not the current one is LOCKED.
C1_RevisionNumbers ==
    \A e \in db.rows.estimates :
        LET R == RevisionsOf(db.rows, e.id) IN
        /\ {r.revision_no : r \in R} = 1..Cardinality(R)
        /\ \A r1, r2 \in R : r1.id < r2.id <=> r1.revision_no < r2.revision_no
        /\ \A r \in R : r.id # e.current_revision_id => r.status = "LOCKED"

\* a document revised twice: three revisions, after a successful revise
C1_Witness ==
    /\ resp.op = "update" /\ resp.status = 200
    /\ \E e \in db.rows.estimates : Cardinality(RevisionsOf(db.rows, e.id)) = 3

\* C2: a step that changes a document's current revision R (number n)
\* makes a new revision with number n+1 current and leaves R LOCKED; a
\* successful revise is such a step; a revision changes status only from
\* DRAFT to LOCKED and only in the step that replaces it as the current one;
\* a LOCKED revision stays, with its subtotal, tax and total unchanged.
C2_Step ==
    /\ \A e \in db.rows.estimates : \A e2 \in db'.rows.estimates :
            (e2.id = e.id /\ e2.current_revision_id # e.current_revision_id) =>
                \E old \in db.rows.revisions, new \in db'.rows.revisions :
                    /\ old.id = e.current_revision_id
                    /\ new.id = e2.current_revision_id
                    /\ new.id \notin RevisionIds(db.rows)
                    /\ new.estimate_id = e.id
                    /\ new.revision_no = old.revision_no + 1
                    /\ \E o2 \in db'.rows.revisions :
                            o2.id = old.id /\ o2.status = "LOCKED"
    /\ (resp'.op = "update" /\ resp'.status = 200) =>
            \E e \in db.rows.estimates : \E e2 \in db'.rows.estimates :
                /\ e2.id = e.id
                /\ e2.current_revision_id = resp'.revision_id
                /\ e.current_revision_id # resp'.revision_id
    /\ \A r \in db.rows.revisions :
            \E r2 \in db'.rows.revisions :
                /\ r2.id = r.id
                /\ r2.status # r.status =>
                        /\ r.status = "DRAFT" /\ r2.status = "LOCKED"
                        /\ \E e \in db.rows.estimates : \E e2 \in db'.rows.estimates :
                                /\ e.current_revision_id = r.id
                                /\ e2.id = e.id
                                /\ e2.current_revision_id # r.id
                /\ r.status = "LOCKED" =>
                        /\ r2.subtotal = r.subtotal
                        /\ r2.tax = r.tax
                        /\ r2.total = r.total

C2_ReviseLocks == [][C2_Step]_vars

\* after a successful revise: a LOCKED revision with totals, and its successor
C2_Witness ==
    /\ resp.op = "update" /\ resp.status = 200
    /\ \E r \in db.rows.revisions, n \in db.rows.revisions :
            /\ r.status = "LOCKED" /\ r.total > 0
            /\ n.id = resp.revision_id /\ n.estimate_id = r.estimate_id
            /\ n.revision_no = r.revision_no + 1 /\ n.status = "DRAFT"

\* C3: overlapping revises leave what some serial order leaves: no two
\* revisions of a document carry the same number, and no revision other
\* than the current one is in DRAFT.
C3_Serializable ==
    \A e \in db.rows.estimates :
        LET R == RevisionsOf(db.rows, e.id) IN
        /\ \A r1, r2 \in R : r1.revision_no = r2.revision_no => r1.id = r2.id
        /\ \A r \in R : r.id # e.current_revision_id => r.status = "LOCKED"

\* C21: a project has at most one document that is not deleted, also
\* after two create requests for it whose existence checks both ran before
\* either insert was committed.
C21_OneDocumentPerProject ==
    \A e1, e2 \in db.rows.estimates :
        (e1.project_id = e2.project_id
            /\ e1.deleted_at = NoneStr /\ e2.deleted_at = NoneStr) => e1.id = e2.id

\* C4: a create or revise that ends in an exception leaves the committed
\* rows as they were, and every document's current_revision_id names a
\* revision of that document that has its sections.
C4_Step ==
    /\ (resp'.op \in {"create", "update"} /\ resp'.status # 200) =>
            db'.rows = db.rows
    /\ \A e \in db'.rows.estimates :
            /\ e.current_revision_id \in
                    {r.id : r \in RevisionsOf(db'.rows, e.id)}
            /\ SectionsOf(db'.rows, e.current_revision_id) # {}

C4_Rollback == [][C4_Step]_vars

\* a revise that raised InvalidFormula after it had locked the current
\* revision and inserted the new one (whose id the sequence has given out):
\* neither is in the committed rows
C4_Witness ==
    /\ resp.op = "update" /\ resp.status = 400 /\ resp.detail = "disallowed"
    /\ resp.revision_id > 0
    /\ resp.revision_id \notin RevisionIds(db.rows)
    /\ \E e \in db.rows.estimates : \E r \in db.rows.revisions :
            r.id = e.current_revision_id /\ r.status = "DRAFT"

\* the subtotal pass 2 left for a section type, as stored on the revision's
\* sections of that type
TypeSubtotal(rows, rid, t) ==
    (CHOOSE x \in SectionsOf(rows, rid) : x.section_type = t).subtotal

RECURSIVE SumTypeSubtotals(_, _, _)
SumTypeSubtotals(rows, rid, types) ==
    IF types = {} THEN 0
    ELSE LET t == CHOOSE y \in types : TRUE IN
         TypeSubtotal(rows, rid, t) + SumTypeSubtotals(rows, rid, types \ {t})

\* C7: on every stored revision, subtotal is the sum over the section types
\* of the type's pass-2 subtotal, tax is subtotal / 10 rounded to the nearest
\* whole number (a tie to the even one), and total = subtotal + tax.
C7_Totals ==
    \A r \in db.rows.revisions :
        LET S == SectionsOf(db.rows, r.id) IN
        /\ \A x, y \in S : x.section_type = y.section_type => x.subtotal = y.subtotal
        /\ r.subtotal = SumTypeSubtotals(db.rows, r.id, {x.section_type : x \in S})
        /\ 10 * r.tax - r.subtotal \in -5..5
        /\ (10 * r.tax - r.subtotal \in {-5, 5}) => r.tax % 2 = 0
        /\ r.total = r.subtotal + r.tax

\* a stored revision with two section types, a tax that is rounded up
C7_Witness ==
    \E r \in db.rows.revisions :
        /\ Cardinality({x.section_type : x \in SectionsOf(db.rows, r.id)}) = 2
        /\ r.subtotal = 39 /\ r.tax = 4 /\ r.total = 43

\* C8: the subtotal stored on every section is the sum of the amounts of
\* the lines submitted under that section.
C8_SectionOwnSubtotal ==
    \A x \in db.rows.sections :
        x.subtotal = SumLineTotals({i \in ItemsOf(db.rows, x.revision_id) :
                                        i.g_sec = x.g_sec})

\* C13: a create request for a project that already has a document that
\* is not deleted is answered 400 (duplicate) before create_estimate runs:
\* no row is written and no sequence value is drawn.
C13_Step ==
    (/\ resp' # resp
     /\ resp'.op = "create"
     /\ \E e \in db.rows.estimates :
            e.project_id = resp'.project_id /\ e.deleted_at = NoneStr)
        => /\ resp'.status = 400 /\ resp'.detail = "duplicate"
           /\ db' = db
           /\ seq' = seq

C13_DuplicateRejected == [][C13_Step]_vars

\* a create rejected as a duplicate, for a project with a document
C13_Witness ==
    /\ resp.op = "create" /\ resp.status = 400 /\ resp.detail = "duplicate"
    /\ \E e \in db.rows.estimates : e.project_id = resp.project_id

\* C14: get_history_details(document, limit) returns at most limit entries,
\* none of them the current revision, newest first, and they are the
\* min(limit, N-1) highest-numbered revisions of the document other than
\* the current one.
C14_History ==
    (resp.op = "history_details" /\ resp.status = 200) =>
        \A e \in db.rows.estimates : e.id = resp.id =>
            LET R == RevisionsOf(db.rows, e.id)
                old == {r \in R : r.id # e.current_revision_id}
                n == Len(resp.out)
                got == {resp.out[k].revision_id : k \in 1..n}
            IN /\ n <= resp.limit
               /\ n = IF resp.limit < Cardinality(R) - 1
                      THEN resp.limit ELSE Cardinality(R) - 1
               /\ e.current_revision_id \notin got
               /\ got \subseteq {r.id : r \in old}
               /\ \A k \in 1..(n - 1) :
                      resp.out[k].revision_no > resp.out[k + 1].revision_no
               /\ \A r \in old : r.id \notin got =>
                      \A k \in 1..n : resp.out[k].revision_no > r.revision_no
               /\ \A k \in 1..n : \E r \in old :
                      r.id = resp.out[k].revision_id
                          /\ r.revision_no = resp.out[k].revision_no

\* a history cut by the limit: 4 revisions, limit 2, revisions 3 and 2 returned
C14_Witness ==
    /\ resp.op = "history_details" /\ resp.status = 200 /\ resp.limit = 2
    /\ Cardinality(RevisionsOf(db.rows, resp.id)) = 4
    /\ Len(resp.out) = 2
    /\ resp.out[1].revision_no = 3 /\ resp.out[2].revision_no = 2

\* C20: get_estimate_detail_by_revision(document, revision) returns only a
\* revision of that document; for a revision of another document it raises
\* 404.
C20_OwnRevisionOnly ==
    resp.op = "detail_by_revision" =>
        /\ resp.status = 200 =>
                \E r \in db.rows.revisions :
                    r.id = resp.revision_id /\ r.estimate_id = resp.id
        /\ (\E r \in db.rows.revisions :
                r.id = resp.revision_id /\ r.estimate_id # resp.id)
                => resp.status = 404

\* C15: a create or revise that submits no section stores a revision with
\* exactly one section, of type MANUAL, no line, and subtotal, tax and total 0.
C15_EmptySections ==
    (resp.op \in {"create", "update"} /\ resp.status = 200 /\ resp.submitted = 0) =>
        /\ \E r \in db.rows.revisions :
                /\ r.id = resp.revision_id
                /\ r.subtotal = 0 /\ r.tax = 0 /\ r.total = 0
        /\ Cardinality(SectionsOf(db.rows, resp.revision_id)) = 1
        /\ \A x \in SectionsOf(db.rows, resp.revision_id) : x.section_type = "MANUAL"
        /\ ItemsOf(db.rows, resp.revision_id) = {}

\* a revise with no section, stored with its MANUAL section
C15_Witness ==
    /\ resp.op = "update" /\ resp.status = 200 /\ resp.submitted = 0
    /\ \E x \in SectionsOf(db.rows, resp.revision_id) : x.section_type = "MANUAL"

\* a create / a revise of the present store, run to its end
CreateRun(ss, pid) ==
    Finish(api_create(Start,
        [project_id |-> pid, title |-> NoneStr, sections |-> ss], 1))
UpdateRun(ss, eid) ==
    Finish(update_estimate(Start, eid,
        [title |-> NoneStr, reason |-> "r", sections |-> ss], 1))

\* what a request leaves behind: its answer, the rows, the sequences
Outcome(c, rows) == [exc |-> c.exc, status |-> c.status, rows |-> rows, seq |-> c.seq]

\* the rows without the product reference of the items
BlankProduct(rows) ==
    [rows EXCEPT !.items = {[i EXCEPT !.product_id = NoneInt,
                                      !.g_source_id = NoneInt] : i \in @}]
SameButProduct(a, b) ==
    Outcome(a, BlankProduct(a.rows)) = Outcome(b, BlankProduct(b.rows))

\* C16: a PRODUCT line whose source_id is not in products does not fail the
\* create or revise: the request ends as the one with a valid source_id
\* does, the item is stored with product_id NULL, and every other stored
\* value (snapshots, qty, unit price, amount, section and revision totals)
\* is the one stored for a valid source_id.
C16_MissingProduct ==
    /\ \A i \in db.rows.items :
            i.product_id = (IF i.g_source_id \in ProductIds THEN i.g_source_id
                                                            ELSE NoneInt)
    /\ \A missing \in SourceIds \ ProductIds, valid \in ProductIds :
            /\ \A pid \in ProjectIds :
                    SameButProduct(CreateRun(PayloadProduct(missing), pid),
                                   CreateRun(PayloadProduct(valid), pid))
            /\ \A eid \in EstimateIds :
                    SameButProduct(UpdateRun(PayloadProduct(missing), eid),
                                   UpdateRun(PayloadProduct(valid), eid))

\* a revise with a missing product after a create with a valid one: both
\* stored revisions have the same amounts and totals
C16_Witness ==
    /\ resp.op = "update" /\ resp.status = 200
    /\ \E i, j \in db.rows.items :
            /\ i.revision_id = resp.revision_id
            /\ i.g_source_id \notin ProductIds /\ i.g_source_id # NoneInt
            /\ i.product_id = NoneInt /\ i.line_total = 10
            /\ j.product_id \in ProductIds /\ j.line_total = 10
    /\ \A r \in db.rows.revisions : r.subtotal = 20 /\ r.total = 22

\* the rows without the record of the amounts the caller sent
BlankAmount(rows) ==
    [rows EXCEPT !.items = {[i EXCEPT !.g_amount = NoneInt] : i \in @}]
SameButAmount(a, b) ==
    Outcome(a, BlankAmount(a.rows)) = Outcome(b, BlankAmount(b.rows))

\* C17: the stored amount of a line is computed, never taken from the
\* request: a NORMAL line stores qty * unit_price, and two creates or two
\* revises of the same store whose section lists differ only in the amount
\* fields of their lines store the same item amounts, section subtotals and
\* revision totals.
C17_AmountIgnored ==
    /\ \A i \in db.rows.items :
            i.calc_mode = "NORMAL" => i.line_total = i.qty * i.unit_price
    /\ \A base \in {PayloadBasic, PayloadFormula}, amount \in CallerAmounts :
            /\ \A pid \in ProjectIds :
                    SameButAmount(CreateRun(WithAmount(base, amount), pid),
                                  CreateRun(base, pid))
            /\ \A eid \in EstimateIds :
                    SameButAmount(UpdateRun(WithAmount(base, amount), eid),
                                  UpdateRun(base, eid))

\* a stored revision whose lines were sent with amount 999: the NORMAL line
\* stores 13, the PERCENT line 26
C17_Witness ==
    /\ resp.op \in {"create", "update"} /\ resp.status = 200
    /\ \E i, j \in ItemsOf(db.rows, resp.revision_id) :
            /\ i.g_amount = 999 /\ i.calc_mode = "NORMAL" /\ i.line_total = 13
            /\ j.g_amount = 999 /\ j.calc_mode = "PERCENT_OF_SUBTOTAL" /\ j.line_total = 26
    /\ \E r \in db.rows.revisions :
            r.id = resp.revision_id /\ r.subtotal = 39

\* C18: the subtotal stored on every revision is the sum of the amounts
\* (line_total) of all items of that revision.
C18_SubtotalIsLineSum ==
    \A r \in db.rows.revisions :
        r.subtotal = SumLineTotals(ItemsOf(db.rows, r.id))

\* C19: every item is attached to the section row written for the
\* submitted section it was listed under, so two items of distinct
\* submitted sections are never attached to the same section row.
C19_OwnSection ==
    \A i \in db.rows.items :
        \A x \in db.rows.sections :
            x.id = i.section_id =>
                x.revision_id = i.revision_id /\ x.g_sec = i.g_sec

----------------------------------------------------------------------------
(* Properties of _recalc_sections *)

\* the sum of the NORMAL line amounts of all sections of type t
RECURSIVE NormalOfType(_, _)
NormalOfType(sections, t) ==
    IF sections = <<>> THEN 0
    ELSE (IF Head(sections).section_type = t THEN NormalSum(Head(sections).lines) ELSE 0)
         + NormalOfType(Tail(sections), t)

TypesOf(sections) == {sections[i].section_type : i \in 1..Len(sections)}

\* the NORMAL-only subtotals of the section types submitted
NormalEnv(sections) == [t \in TypesOf(sections) |-> NormalOfType(sections, t)]

BaseOf(ln) ==
    IF ln.base_section_type = NoneStr THEN ln.section_type ELSE ln.base_section_type

\* no two sections of the list have the same section_type
DistinctTypes(sections) ==
    \A i, j \in 1..Len(sections) :
        sections[i].section_type = sections[j].section_type => i = j

\* C5: every PERCENT_OF_SUBTOTAL line's amount is the NORMAL subtotal of
\* its base section type * qty / 100, and every FORMULA line's amount is its
\* formula over the NORMAL-only subtotals: no such line sees the amount of
\* another percent or formula line.  Stated for lists with one section per
\* type, where the NORMAL subtotal of a type is that of its only section.
C5_NormalOnlyBase ==
    (res.exc = "None" /\ DistinctTypes(secs)) =>
        \A k \in 1..Len(res.serialized_lines) :
            LET ln == res.serialized_lines[k] IN
            /\ ln.calc_mode = "PERCENT_OF_SUBTOTAL" =>
                    ln.amount = (NormalOfType(secs, BaseOf(ln)) * ln.qty) \div 100
            /\ (ln.calc_mode = "FORMULA" /\ ln.formula \notin {NoneStr, ""}) =>
                    ln.amount = eval_formula(ln.formula, NormalEnv(secs)).value

\* C6: pass 1 leaves, for every section type submitted, the sum of the
\* NORMAL line amounts of all the sections of that type.
C6_Pass1Accumulates ==
    res.exc # "NotRun" =>
        \A t \in TypesOf(OrDefault(secs)) :
            Pass1(OrDefault(secs), EmptyDict)[t] = NormalOfType(secs, t)

\* the sections in the order p, the lines of each reversed when rev
Reordered(sections, p, rev) ==
    [k \in 1..Len(sections) |->
        [sections[p[k]] EXCEPT !.lines =
            IF rev THEN [j \in 1..Len(@) |-> @[Len(@) + 1 - j]] ELSE @]]

\* the amount _recalc_sections gave to line j of section i of its input
AmountAt(r, i, j) ==
    LET k == CHOOSE x \in 1..Len(r.serialized_lines) :
                r.serialized_lines[x].g_sec = i /\ r.serialized_lines[x].g_line = j
    IN r.serialized_lines[k].amount

SameAsReordered(r2, p, rev) ==
    /\ r2.exc = res.exc
    /\ r2.subtotal_all = res.subtotal_all
    /\ r2.tax = res.tax
    /\ r2.total = res.total
    /\ r2.exc = "None" =>
            \A k \in 1..Len(secs) : \A j \in 1..Len(secs[p[k]].lines) :
                AmountAt(r2, k, IF rev THEN Len(secs[p[k]].lines) + 1 - j ELSE j)
                    = AmountAt(res, p[k], j)

\* C9: whatever the order of the sections, and of the lines in each
\* section, every line gets the same amount and the totals are the same.
\* Stated for lists with one section per type.
C9_OrderIndependent ==
    (res.exc # "NotRun" /\ DistinctTypes(secs)) =>
        \A p \in Permutations(1..Len(secs)), rev \in BOOLEAN :
            SameAsReordered(recalc_sections(Reordered(secs, p, rev)), p, rev)

\* the identifiers a formula names
FormulaNames(expr) ==
    LET nodes == AstWalk(<<AstParse(expr)>>) IN
    {nodes[k].id : k \in {x \in 1..Len(nodes) : nodes[x].type = "Name"}}

FormulasOf(sections) ==
    UNION {{sections[i].lines[j].formula : j \in
                {x \in 1..Len(sections[i].lines) :
                    /\ sections[i].lines[x].calc_mode = "FORMULA"
                    /\ sections[i].lines[x].formula \notin {NoneStr, ""}}} :
            i \in 1..Len(sections)}

\* C10: a submission whose formulas name section types only is not
\* rejected for an unknown variable, whatever section types it contains.
C10_SixNames ==
    (/\ res.exc # "NotRun"
     /\ \A f \in FormulasOf(secs) : FormulaNames(f) \subseteq SectionTypes)
        => ~(res.exc = "HTTPException" /\ res.detail = "unknown variable")

----------------------------------------------------------------------------
(* Properties of _eval_formula *)

\* C11: _eval_formula returns a number or raises HTTPException 400; no
\* other exception leaves it.
C11_NumberOrInvalidFormula ==
    res.exc # "NotRun" =>
        \/ res.exc = "None"
        \/ res.exc = "HTTPException" /\ res.status = 400

\* the node types of function call, attribute access, index, comparison
\* and boolean operator
ForbiddenNodes == {"Call", "Attribute", "Subscript", "Compare", "BoolOp"}

\* the formula holds a forbidden construct or names no key of env
HasForbidden(expr, env) ==
    LET nodes == AstWalk(<<AstParse(expr)>>) IN
    \E k \in 1..Len(nodes) :
        \/ nodes[k].type \in ForbiddenNodes
        \/ nodes[k].type = "Name" /\ nodes[k].id \notin DOMAIN env

\* C12: a formula with a function call, an attribute access, an index, a
\* comparison, a boolean operator or an identifier that is no key of the
\* environment is rejected with HTTPException 400 and returns no number,
\* and the rejection comes before eval() is called.
C12_ForbiddenRejected ==
    (res.exc # "NotRun" /\ AstParse(secs.formula).type # "SyntaxError"
        /\ HasForbidden(secs.formula, secs.env)) =>
            /\ res.exc = "HTTPException"
            /\ res.status = 400
            /\ ~res.evaluated

\* an attribute access on a known name, rejected
C12_Witness ==
    /\ secs.formula = "MATERIAL.real"
    /\ "MATERIAL" \in DOMAIN secs.env
    /\ res.exc = "HTTPException" /\ res.status = 400 /\ res.detail = "disallowed"

====
